---- MODULE Spec2Model ----
(***************************************************************************)
(* Model of the Mandelbrot renderer of src/src/main.rs: escape_time,       *)
(* pixel_to_point and render.                                              *)
(*                                                                         *)
(* The program computes on f64 and usize.  TLC's integers are 32 bits      *)
(* wide, so both are modelled on naturals of arbitrary size, kept as       *)
(* little-endian sequences of limbs below Base.  An f64 is a record        *)
(*   [cls, sgn, man, exp]   with value (-1)^sgn * man * 2^exp,             *)
(* where man is odd (or empty for zero), and every operation is the exact  *)
(* result rounded to nearest, ties to even, with binary64's precision,     *)
(* subnormals, overflow to infinity, signed zeros and NaN.                 *)
(***************************************************************************)
EXTENDS Integers, Sequences, FiniteSets, TLC

----------------------------------------------------------------------------
(* Naturals of arbitrary size.                                             *)

Base == 2^15

RECURSIVE BitLenInt(_)
BitLenInt(n) == IF n = 0 THEN 0 ELSE 1 + BitLenInt(n \div 2)

LimbBits == BitLenInt(Base - 1)

Limb(a, i) == IF i >= 1 /\ i <= Len(a) THEN a[i] ELSE 0

RECURSIVE NNorm(_)
NNorm(a) ==
    IF a = <<>> THEN a
    ELSE IF a[Len(a)] = 0 THEN NNorm(SubSeq(a, 1, Len(a) - 1))
    ELSE a

RECURSIVE NFromInt(_)
NFromInt(n) == IF n = 0 THEN <<>> ELSE <<n % Base>> \o NFromInt(n \div Base)

RECURSIVE NToIntFrom(_, _)
NToIntFrom(a, i) == IF i > Len(a) THEN 0 ELSE a[i] + Base * NToIntFrom(a, i + 1)

NToInt(a) == NToIntFrom(a, 1)

RECURSIVE NAddFrom(_, _, _, _)
NAddFrom(a, b, i, c) ==
    IF i > Len(a) /\ i > Len(b)
    THEN (IF c = 0 THEN <<>> ELSE <<c>>)
    ELSE LET s == Limb(a, i) + Limb(b, i) + c
         IN  <<s % Base>> \o NAddFrom(a, b, i + 1, s \div Base)

NAdd(a, b) == NAddFrom(a, b, 1, 0)

RECURSIVE NSubFrom(_, _, _, _)
NSubFrom(a, b, i, c) ==
    IF i > Len(a) THEN <<>>
    ELSE LET d == Limb(a, i) - Limb(b, i) - c
         IN  IF d < 0
             THEN <<d + Base>> \o NSubFrom(a, b, i + 1, 1)
             ELSE <<d>> \o NSubFrom(a, b, i + 1, 0)

\* a - b, for a >= b
NSub(a, b) == NNorm(NSubFrom(a, b, 1, 0))

RECURSIVE NCmpFrom(_, _, _)
NCmpFrom(a, b, i) ==
    IF i = 0 THEN 0
    ELSE IF a[i] < b[i] THEN -1
    ELSE IF a[i] > b[i] THEN 1
    ELSE NCmpFrom(a, b, i - 1)

\* -1, 0, 1 as a < b, a = b, a > b
NCmp(a, b) ==
    IF Len(a) < Len(b) THEN -1
    ELSE IF Len(a) > Len(b) THEN 1
    ELSE NCmpFrom(a, b, Len(a))

RECURSIVE NMulSmallFrom(_, _, _, _)
NMulSmallFrom(a, d, i, c) ==
    IF i > Len(a)
    THEN (IF c = 0 THEN <<>> ELSE <<c>>)
    ELSE LET p == a[i] * d + c
         IN  <<p % Base>> \o NMulSmallFrom(a, d, i + 1, p \div Base)

\* a * d, for 0 <= d < Base
NMulSmall(a, d) == IF d = 0 THEN <<>> ELSE NMulSmallFrom(a, d, 1, 0)

NShiftLimbs(a, k) == IF a = <<>> THEN a ELSE [i \in 1..k |-> 0] \o a

RECURSIVE NMulFrom(_, _, _)
NMulFrom(a, b, i) ==
    IF i > Len(b) THEN <<>>
    ELSE NAdd(NMulSmall(a, b[i]), NShiftLimbs(NMulFrom(a, b, i + 1), 1))

NMul(a, b) == NMulFrom(a, b, 1)

\* a * 2^k
NShl(a, k) == NShiftLimbs(NMulSmall(a, 2^(k % LimbBits)), k \div LimbBits)

\* floor(a / 2^k)
NShr(a, k) ==
    LET drop == k \div LimbBits
        r    == k % LimbBits
        t    == IF drop >= Len(a) THEN <<>> ELSE SubSeq(a, drop + 1, Len(a))
    IN  NNorm([i \in 1..Len(t) |->
                  (t[i] \div 2^r) + (Limb(t, i + 1) % 2^r) * 2^(LimbBits - r)])

\* a mod 2^k
NLowBits(a, k) == NSub(a, NShl(NShr(a, k), k))

NBitLen(a) ==
    IF a = <<>> THEN 0 ELSE LimbBits * (Len(a) - 1) + BitLenInt(a[Len(a)])

NBit(a, i) == (Limb(a, i \div LimbBits + 1) \div 2^(i % LimbBits)) % 2

NIsOdd(a) == Limb(a, 1) % 2 = 1

RECURSIVE TrailingZerosInt(_)
TrailingZerosInt(n) == IF n % 2 = 1 THEN 0 ELSE 1 + TrailingZerosInt(n \div 2)

RECURSIVE NTrailingZerosFrom(_, _)
NTrailingZerosFrom(a, i) ==
    IF a[i] = 0 THEN LimbBits + NTrailingZerosFrom(a, i + 1)
    ELSE TrailingZerosInt(a[i])

\* the number of low zero bits of a, for a > 0
NTrailingZeros(a) == NTrailingZerosFrom(a, 1)

\* Long division, one bit of n at a time from bit hi-1 down to bit lo; the
\* range is halved rather than walked so that the nesting stays shallow.
RECURSIVE NDivRange(_, _, _, _, _)
NDivRange(st, n, d, lo, hi) ==
    IF hi <= lo THEN st
    ELSE IF hi = lo + 1
    THEN LET r2 == NAdd(NShl(st.r, 1), NFromInt(NBit(n, lo)))
             q2 == NShl(st.q, 1)
         IN  IF NCmp(r2, d) >= 0
             THEN [q |-> NAdd(q2, <<1>>), r |-> NSub(r2, d)]
             ELSE [q |-> q2, r |-> r2]
    ELSE LET mid  == (lo + hi) \div 2
             high == NDivRange(st, n, d, mid, hi)
         IN  \* the test makes TLC compute the upper half before the lower
             IF Len(high.q) >= 0 THEN NDivRange(high, n, d, lo, mid) ELSE high

\* [q |-> floor(n / d), r |-> n mod d], for d > 0
NDivMod(n, d) == NDivRange([q |-> <<>>, r |-> <<>>], n, d, 0, NBitLen(n))

----------------------------------------------------------------------------
(* f64: IEEE 754 binary64, round to nearest, ties to even.                 *)

\* significand bits, the exponent of the smallest subnormal, and the bound
\* 2^MaxExp that every finite value is below
Prec == 53
MinExp == -1074
MaxExp == 1024

NaN == [cls |-> "nan", sgn |-> 0, man |-> <<>>, exp |-> 0]

Inf(s) == [cls |-> "inf", sgn |-> s, man |-> <<>>, exp |-> 0]

Zero(s) == [cls |-> "fin", sgn |-> s, man |-> <<>>, exp |-> 0]

\* (-1)^s * m * 2^e for m > 0, with the low zero bits of m moved into e
Fin(s, m, e) ==
    LET tz == NTrailingZeros(m)
    IN  [cls |-> "fin", sgn |-> s, man |-> NShr(m, tz), exp |-> e + tz]

IsNaN(x) == x.cls = "nan"
IsInf(x) == x.cls = "inf"
IsZero(x) == x.cls = "fin" /\ x.man = <<>>
IsFinite(x) == x.cls = "fin"

SgnXor(x, y) == IF x.sgn = y.sgn THEN 0 ELSE 1

\* the exponent of the bit above the highest set bit of a finite nonzero x
Top(x) == x.exp + NBitLen(x.man)

\* The f64 nearest to the exact value (-1)^s * m * 2^e.
Round(s, m, e) ==
    IF m = <<>> THEN Zero(s)
    ELSE LET L == NBitLen(m)
             q == IF e + L - Prec > MinExp THEN e + L - Prec ELSE MinExp
             k == q - e
         IN  IF k <= 0
             THEN (IF e + L > MaxExp THEN Inf(s) ELSE Fin(s, m, e))
             ELSE IF k > L THEN Zero(s)
             ELSE LET t    == NShr(m, k)
                      c    == NCmp(NLowBits(m, k), NShl(<<1>>, k - 1))
                      r    == IF c > 0 \/ (c = 0 /\ NIsOdd(t))
                              THEN NAdd(t, <<1>>) ELSE t
                  IN  IF r = <<>> THEN Zero(s)
                      ELSE IF NBitLen(r) + q > MaxExp THEN Inf(s)
                      ELSE Fin(s, r, q)

FNeg(x) == IF IsNaN(x) THEN x ELSE [x EXCEPT !.sgn = 1 - x.sgn]

\* x + y for finite nonzero x and y
FAddFinite(x, y) ==
    IF Top(x) - Top(y) > Prec + 3 THEN x
    ELSE IF Top(y) - Top(x) > Prec + 3 THEN y
    ELSE LET e0 == IF x.exp < y.exp THEN x.exp ELSE y.exp
             ax == NShl(x.man, x.exp - e0)
             ay == NShl(y.man, y.exp - e0)
             c  == NCmp(ax, ay)
         IN  IF x.sgn = y.sgn THEN Round(x.sgn, NAdd(ax, ay), e0)
             ELSE IF c = 0 THEN Zero(0)
             ELSE IF c > 0 THEN Round(x.sgn, NSub(ax, ay), e0)
             ELSE Round(y.sgn, NSub(ay, ax), e0)

FAdd(x, y) ==
    IF IsNaN(x) \/ IsNaN(y) THEN NaN
    ELSE IF IsInf(x) THEN (IF IsInf(y) /\ x.sgn # y.sgn THEN NaN ELSE x)
    ELSE IF IsInf(y) THEN y
    ELSE IF IsZero(x) /\ IsZero(y)
         THEN Zero(IF x.sgn = 1 /\ y.sgn = 1 THEN 1 ELSE 0)
    ELSE IF IsZero(x) THEN y
    ELSE IF IsZero(y) THEN x
    ELSE FAddFinite(x, y)

FSub(x, y) == FAdd(x, FNeg(y))

FMul(x, y) ==
    IF IsNaN(x) \/ IsNaN(y) THEN NaN
    ELSE IF (IsInf(x) /\ IsZero(y)) \/ (IsZero(x) /\ IsInf(y)) THEN NaN
    ELSE IF IsInf(x) \/ IsInf(y) THEN Inf(SgnXor(x, y))
    ELSE IF IsZero(x) \/ IsZero(y) THEN Zero(SgnXor(x, y))
    ELSE Round(SgnXor(x, y), NMul(x.man, y.man), x.exp + y.exp)

\* x / y for finite nonzero x and y: the quotient of the significands to
\* more than Prec + 2 bits, and one more bit set when the division is inexact
FDivFinite(x, y) ==
    LET need == NBitLen(y.man) + Prec + 3 - NBitLen(x.man)
        k    == IF need > 0 THEN need ELSE 0
        dm   == NDivMod(NShl(x.man, k), y.man)
    IN  IF dm.r = <<>>
        THEN Round(SgnXor(x, y), dm.q, x.exp - y.exp - k)
        ELSE Round(SgnXor(x, y), NAdd(NShl(dm.q, 1), <<1>>), x.exp - y.exp - k - 1)

FDiv(x, y) ==
    IF IsNaN(x) \/ IsNaN(y) THEN NaN
    ELSE IF (IsInf(x) /\ IsInf(y)) \/ (IsZero(x) /\ IsZero(y)) THEN NaN
    ELSE IF IsInf(x) \/ IsZero(y) THEN Inf(SgnXor(x, y))
    ELSE IF IsInf(y) \/ IsZero(x) THEN Zero(SgnXor(x, y))
    ELSE FDivFinite(x, y)

\* -1, 0, 1 as |x| < |y|, |x| = |y|, |x| > |y|, for x and y not NaN
MagCmp(x, y) ==
    IF IsInf(x) THEN (IF IsInf(y) THEN 0 ELSE 1)
    ELSE IF IsInf(y) THEN -1
    ELSE IF IsZero(x) THEN (IF IsZero(y) THEN 0 ELSE -1)
    ELSE IF IsZero(y) THEN 1
    ELSE IF Top(x) < Top(y) THEN -1
    ELSE IF Top(x) > Top(y) THEN 1
    ELSE LET e0 == IF x.exp < y.exp THEN x.exp ELSE y.exp
         IN  NCmp(NShl(x.man, x.exp - e0), NShl(y.man, y.exp - e0))

Signum(x) == IF IsZero(x) THEN 0 ELSE IF x.sgn = 1 THEN -1 ELSE 1

\* -1, 0, 1 as x < y, x = y, x > y, for x and y not NaN
FCmp(x, y) ==
    IF Signum(x) # Signum(y) THEN (IF Signum(x) < Signum(y) THEN -1 ELSE 1)
    ELSE Signum(x) * MagCmp(x, y)

FGt(x, y) == ~IsNaN(x) /\ ~IsNaN(y) /\ FCmp(x, y) > 0

FEq(x, y) == ~IsNaN(x) /\ ~IsNaN(y) /\ FCmp(x, y) = 0

\* `n as f64` for a usize n
FromUsize(n) == Round(0, n, 0)

----------------------------------------------------------------------------
(* num::Complex<f64>, as the program uses it.                              *)

Complex(re, im) == [re |-> re, im |-> im]

\* Complex + Complex
CAdd(a, b) == Complex(FAdd(a.re, b.re), FAdd(a.im, b.im))

\* Complex * Complex
CMul(a, b) ==
    Complex(FSub(FMul(a.re, b.re), FMul(a.im, b.im)),
            FAdd(FMul(a.re, b.im), FMul(a.im, b.re)))

\* Complex::norm_sqr
norm_sqr(z) == FAdd(FMul(z.re, z.re), FMul(z.im, z.im))

\* n * 2^e for an integer n of at most 31 bits: a literal of the source, or
\* an input
Lit(n, e) == Round(IF n < 0 THEN 1 ELSE 0, NFromInt(IF n < 0 THEN -n ELSE n), e)

----------------------------------------------------------------------------
(* escape_time                                                             *)

None == [some |-> FALSE, val |-> 0]

Some(v) == [some |-> TRUE, val |-> v]

\* the loop state as escape_time is entered: z, whether the function has
\* returned and what, and the number of passes made through the loop body
EscapeEntry ==
    [z |-> Complex(Zero(0), Zero(0)), returned |-> FALSE, ret |-> None,
     passes |-> 0]

\* mutants of Escaped: the comparison turned round, and not strict
EscapedBelow(z) == FGt(Lit(4, 0), norm_sqr(z))

EscapedOrEqual(z) == FGt(norm_sqr(z), Lit(4, 0)) \/ FEq(norm_sqr(z), Lit(4, 0))

\* the comparison of the loop body: z.norm_sqr() > 4.0
Escaped(z) == FGt(norm_sqr(z), Lit(4, 0))

\* mutant of EscapeBody: the passes counted from one
EscapeBodyFromOne(st, c, i) ==
    LET z == CAdd(CMul(st.z, st.z), c)
    IN  IF Escaped(z)
        THEN [z |-> z, returned |-> TRUE, ret |-> Some(i + 1),
              passes |-> st.passes + 1]
        ELSE [st EXCEPT !.z = z, !.passes = st.passes + 1]

\* one pass through the loop body with index i
EscapeBody(st, c, i) ==
    LET z == CAdd(CMul(st.z, st.z), c)
    IN  IF Escaped(z)
        THEN [z |-> z, returned |-> TRUE, ret |-> Some(i),
              passes |-> st.passes + 1]
        ELSE [st EXCEPT !.z = z, !.passes = st.passes + 1]

\* mutant of EscapeLoop: no return from inside the loop, so that the last
\* pass that escaped decides
RECURSIVE EscapeLoopNoExit(_, _, _, _)
EscapeLoopNoExit(st, c, lo, hi) ==
    IF hi <= lo THEN st
    ELSE IF hi = lo + 1 THEN EscapeBody(st, c, lo)
    ELSE LET mid   == (lo + hi) \div 2
             first == EscapeLoopNoExit(st, c, lo, mid)
         IN  IF first.passes >= 0
             THEN EscapeLoopNoExit(first, c, mid, hi) ELSE first

\* for i in lo .. hi-1: the body, until it returns.  The range is halved
\* rather than walked so that the nesting stays shallow.
RECURSIVE EscapeLoop(_, _, _, _)
EscapeLoop(st, c, lo, hi) ==
    IF hi <= lo \/ st.returned THEN st
    ELSE IF hi = lo + 1 THEN EscapeBody(st, c, lo)
    ELSE LET mid   == (lo + hi) \div 2
             first == EscapeLoop(st, c, lo, mid)
         IN  IF first.returned THEN first ELSE EscapeLoop(first, c, mid, hi)

\* mutant of EscapeRun: for i in 1 ..= limit
EscapeRunFromOne(c, limit) == EscapeLoop(EscapeEntry, c, 1, limit + 1)

\* the state in which escape_time(c, limit) leaves its loop
EscapeRun(c, limit) == EscapeLoop(EscapeEntry, c, 0, limit)

escape_time(c, limit) == EscapeRun(c, limit).ret

----------------------------------------------------------------------------
(* pixel_to_point; bounds and pixel are pairs of usize                     *)

\* mutant of pixel_to_point: the vertical axis not flipped
pixel_to_point_unflipped(bounds, pixel, upper_left, lower_right) ==
    LET width  == FSub(lower_right.re, upper_left.re)
        height == FSub(upper_left.im, lower_right.im)
    IN  Complex(FAdd(upper_left.re,
                     FDiv(FMul(FromUsize(pixel[1]), width), FromUsize(bounds[1]))),
                FAdd(upper_left.im,
                     FDiv(FMul(FromUsize(pixel[2]), height), FromUsize(bounds[2]))))

pixel_to_point(bounds, pixel, upper_left, lower_right) ==
    LET width  == FSub(lower_right.re, upper_left.re)
        height == FSub(upper_left.im, lower_right.im)
    IN  Complex(FAdd(upper_left.re,
                     FDiv(FMul(FromUsize(pixel[1]), width), FromUsize(bounds[1]))),
                FSub(upper_left.im,
                     FDiv(FMul(FromUsize(pixel[2]), height), FromUsize(bounds[2]))))

----------------------------------------------------------------------------
(* usize arithmetic.  A product that does not fit in UsizeBits bits panics *)
(* in a build with overflow checks and wraps in a build without.           *)

UsizeBits == 64

UsizeMul(a, b) ==
    LET p == NMul(a, b)
    IN  [overflow |-> NBitLen(p) > UsizeBits, val |-> NLowBits(p, UsizeBits)]

UsizeAdd(a, b) ==
    LET p == NAdd(a, b)
    IN  [overflow |-> NBitLen(p) > UsizeBits, val |-> NLowBits(p, UsizeBits)]

----------------------------------------------------------------------------
(* The state: one record per function of the program under study.          *)
(*   et  a call of escape_time:    pc, c, limit, ret, passes               *)
(*   pp  a call of pixel_to_point: pc, bounds, pixel, upper_left,          *)
(*       lower_right, ret                                                  *)
(*   rd  a call of render: pc, its arguments, the loop counters, the       *)
(*       panic it ended in, whether the build checks overflow, and two     *)
(*       history fields: the buffer as passed in and the pixels evaluated  *)

VARIABLES et, pp, rd

vars == <<et, pp, rd>>

EtIdle == [pc |-> "idle"]
PpIdle == [pc |-> "idle"]
RdIdle == [pc |-> "idle"]

----------------------------------------------------------------------------
(* render                                                                  *)

\* the iteration limit render passes to escape_time
RenderLimit == 255

\* mutant of RenderPixelArg: the pixel given as (row, column)
RenderPixelArgRowFirst(row, column) == <<NFromInt(row), NFromInt(column)>>

\* the argument render gives pixel_to_point for (row, column)
RenderPixelArg(row, column) == <<NFromInt(column), NFromInt(row)>>

\* row * bounds.0 + column
RenderIndex(row, column, bounds) ==
    UsizeAdd(UsizeMul(NFromInt(row), bounds[1]).val, NFromInt(column)).val

\* mutant of PixelByte: the count stored as it is
PixelByteCount(ret) == IF ret.some THEN ret.val % 256 ELSE 0

\* the byte render stores for a result of escape_time: `count as u8` keeps
\* the low 8 bits
PixelByte(ret) == IF ret.some THEN 255 - (ret.val % 256) ELSE 0

\* mutant of RenderAdvance: the rows run in the inner loop
RenderAdvanceColumnMajor(row, column, bounds) ==
    IF NCmp(NFromInt(row + 1), bounds[2]) < 0
    THEN <<row + 1, column>>
    ELSE <<0, column + 1>>

\* the counters after the pass for (row, column): the inner loop over
\* 0 .. bounds.0 steps, and at its end the outer loop does
RenderAdvance(row, column, bounds) ==
    IF NCmp(NFromInt(column + 1), bounds[1]) < 0
    THEN <<row, column + 1>>
    ELSE <<row + 1, 0>>

\* whether the loops have a pass of the body left to make; with bounds.0 = 0
\* the outer loop runs over an empty inner loop and the body is never entered
RenderMore(row, column, bounds) ==
    bounds[1] # <<>> /\ NCmp(NFromInt(row), bounds[2]) < 0

\* line 110: assert!(pixels.len() == bounds.0 * bounds.1)
RenderEnter ==
    /\ rd.pc = "entry"
    /\ LET prod == UsizeMul(rd.bounds[1], rd.bounds[2])
       IN  rd' = IF prod.overflow /\ rd.overflow_checks
                 THEN [rd EXCEPT !.pc = "panic", !.panic = "overflow"]
                 ELSE IF NFromInt(Len(rd.pixels)) # prod.val
                 THEN [rd EXCEPT !.pc = "panic", !.panic = "assert"]
                 ELSE [rd EXCEPT !.pc = "loop"]
    /\ UNCHANGED <<et, pp>>

\* lines 113-116: the point of (row, column) and the run of escape_time on it
RenderEval(row, column, bounds, upper_left, lower_right) ==
    EscapeRun(pixel_to_point(bounds, RenderPixelArg(row, column),
                             upper_left, lower_right),
              RenderLimit)

\* line 115: the store to pixels[index], which panics outside the buffer; a
\* store that succeeds is followed by the step of the loops to `next`
RenderStore(r, run, index, next) ==
    IF NCmp(index, NFromInt(Len(r.pixels))) < 0
    THEN [r EXCEPT !.pixels[NToInt(index) + 1] = PixelByte(run.ret),
                   !.evals = Append(r.evals,
                                    [index |-> index, ret |-> run.ret,
                                     passes |-> run.passes, written |-> TRUE]),
                   !.row = next[1], !.column = next[2]]
    ELSE [r EXCEPT !.pc = "panic", !.panic = "index",
                   !.evals = Append(r.evals,
                                    [index |-> index, ret |-> run.ret,
                                     passes |-> run.passes, written |-> FALSE])]

\* lines 113-119 for one (row, column), and the step of the loops
RenderPixel ==
    /\ rd.pc = "loop"
    /\ RenderMore(rd.row, rd.column, rd.bounds)
    /\ rd' = RenderStore(rd,
                         RenderEval(rd.row, rd.column, rd.bounds,
                                    rd.upper_left, rd.lower_right),
                         RenderIndex(rd.row, rd.column, rd.bounds),
                         RenderAdvance(rd.row, rd.column, rd.bounds))
    /\ UNCHANGED <<et, pp>>

\* the loops are over: render returns
RenderReturn ==
    /\ rd.pc = "loop"
    /\ ~RenderMore(rd.row, rd.column, rd.bounds)
    /\ rd' = [rd EXCEPT !.pc = "done"]
    /\ UNCHANGED <<et, pp>>

----------------------------------------------------------------------------
(* The calls of the two pure functions.                                    *)

EscapeReturn(call, run) ==
    [call EXCEPT !.pc = "ret", !.ret = run.ret, !.passes = run.passes]

EscapeCall ==
    /\ et.pc = "call"
    /\ et' = EscapeReturn(et, EscapeRun(et.c, et.limit))
    /\ UNCHANGED <<pp, rd>>

PixelToPointCall ==
    /\ pp.pc = "call"
    /\ pp' = [pp EXCEPT !.pc = "ret",
                        !.ret = pixel_to_point(pp.bounds, pp.pixel,
                                               pp.upper_left, pp.lower_right)]
    /\ UNCHANGED <<et, rd>>

----------------------------------------------------------------------------
(* Inputs.                                                                 *)

MaxLimit == 6
MaxDim == 3
MaxCoord == 2
MaxWidth == 2
MaxHeight == 2
MaxLen == 4

Pow2(k) == NShl(<<1>>, k)

\* 1.5 * 2^1023, close to the largest f64
Huge == Lit(3, 1022)

\* the f64 next above 2.0
AboveTwo == Round(0, NAdd(Pow2(Prec - 1), <<1>>), 2 - Prec)

EscapeRe ==
    {Lit(0, 0), Zero(1), Lit(1, 0), Lit(-1, 0), Lit(2, 0), Lit(-2, 0), Lit(5, 0),
     Lit(1, -2), Lit(33, -7), Lit(-3, -2), Lit(3, -3), AboveTwo, Huge,
     Inf(0), NaN}

EscapeIm ==
    {Lit(0, 0), Lit(1, 0), Lit(2, 0), Lit(-1, -3), Lit(3, -3), Lit(1, -30),
     Lit(1, MinExp)}

EscapeInputs == {Complex(re, im) : re \in EscapeRe, im \in EscapeIm}

Limits == (0 .. MaxLimit) \cup {RenderLimit}

\* viewports: <<upper_left, lower_right>>
ViewClassic == <<Complex(Lit(-2, 0), Lit(1, 0)), Complex(Lit(1, 0), Lit(-1, 0))>>
ViewOrigin == <<Complex(Lit(0, 0), Lit(0, 0)), Complex(Lit(0, 0), Lit(0, 0))>>
ViewTest == <<Complex(Lit(-1, 0), Lit(1, 0)), Complex(Lit(1, 0), Lit(-1, 0))>>
ViewSeahorse ==
    <<Complex(Lit(-3, -2), Lit(1, -4)), Complex(Lit(-23, -5), Lit(0, 0))>>
ViewHuge == <<Complex(FNeg(Huge), Huge), Complex(Huge, FNeg(Huge))>>
Viewports == {ViewClassic, ViewOrigin, ViewTest, ViewSeahorse, ViewHuge}

PointDims ==
    {NFromInt(n) : n \in (0 .. MaxDim) \cup {100}} \cup {NAdd(Pow2(Prec), <<1>>)}

PointCoords == {NFromInt(n) : n \in (0 .. MaxCoord) \cup {25, 75}}

\* bounds whose product does not fit a usize, or only just
WideBounds ==
    {<<Pow2(UsizeBits - 1), <<2>>>>, <<<<2>>, NAdd(Pow2(UsizeBits - 1), <<1>>)>>,
     <<Pow2(UsizeBits \div 2), Pow2(UsizeBits \div 2)>>,
     <<<<>>, NSub(Pow2(UsizeBits), <<1>>)>>}

RenderBounds ==
    {<<NFromInt(w), NFromInt(h)>> : w \in 0 .. MaxWidth, h \in 0 .. MaxHeight}
    \cup WideBounds

\* what the buffer holds as render is called: main passes zeros
Fills == {0, 170}

InitEscape ==
    /\ et \in {[pc |-> "call", c |-> c, limit |-> l, ret |-> None, passes |-> 0] :
                 c \in EscapeInputs, l \in Limits}
    /\ pp = PpIdle
    /\ rd = RdIdle

InitPoint ==
    /\ pp \in {[pc |-> "call", bounds |-> <<w, h>>, pixel |-> <<c, r>>,
                upper_left |-> v[1], lower_right |-> v[2],
                ret |-> Complex(Zero(0), Zero(0))] :
                 w \in PointDims, h \in PointDims, c \in PointCoords,
                 r \in PointCoords, v \in Viewports}
    /\ et = EtIdle
    /\ rd = RdIdle

InitRender ==
    /\ rd \in {[pc |-> "entry", pixels |-> [i \in 1 .. len |-> fill],
                bounds |-> b, upper_left |-> v[1], lower_right |-> v[2],
                row |-> 0, column |-> 0, panic |-> "none",
                overflow_checks |-> oc,
                given |-> [i \in 1 .. len |-> fill], evals |-> <<>>] :
                 len \in 0 .. MaxLen, fill \in Fills, b \in RenderBounds,
                 v \in Viewports, oc \in BOOLEAN}
    /\ et = EtIdle
    /\ pp = PpIdle

NextEscape == EscapeCall

NextPoint == PixelToPointCall

NextRender == RenderEnter \/ RenderPixel \/ RenderReturn

SpecEscape == InitEscape /\ [][NextEscape]_vars

SpecPoint == InitPoint /\ [][NextPoint]_vars

SpecRender == InitRender /\ [][NextRender]_vars

\* render has a step to take: every step of NextRender changes rd, so these
\* are the states in which <<NextRender>>_vars is enabled
RenderRunning == rd.pc \in {"entry", "loop"}

\* render runs on one thread, with nothing to wait for: a step that can be
\* taken is taken.  This is WF_vars(NextRender) with the enabling condition
\* written out as RenderRunning.
RenderFairness == []<>(~RenderRunning) \/ []<><<NextRender>>_vars

FairRender == SpecRender /\ RenderFairness

----------------------------------------------------------------------------
(* The claims about escape_time, under SpecEscape.                         *)

\* the first n points of the orbit of 0 under z -> z*z + c, after z
RECURSIVE OrbitFrom(_, _, _)
OrbitFrom(z, c, n) ==
    IF n = 0 THEN <<>>
    ELSE IF n = 1 THEN <<CAdd(CMul(z, z), c)>>
    ELSE LET h     == n \div 2
             first == OrbitFrom(z, c, h)
         IN  first \o OrbitFrom(first[h], c, n - h)

Orbit(c, n) == OrbitFrom(Complex(Zero(0), Zero(0)), c, n)

\* the indices i < Len(orb) at which |z|^2 > 4 holds after the update
Exceeding(orb) == {i \in 0 .. Len(orb) - 1 : FGt(norm_sqr(orb[i + 1]), Lit(4, 0))}

\* the indices i < Len(orb) at which |z|^2 is 4 and no index up to i exceeds
OnCircle(orb) ==
    {i \in 0 .. Len(orb) - 1 :
        /\ FEq(norm_sqr(orb[i + 1]), Lit(4, 0))
        /\ \A j \in Exceeding(orb) : j > i}

EtReturned == et.pc = "ret"

\* C2: escape_time(c, limit) returns Some(i) exactly when i is the smallest
\* index in [0, limit) after whose update |z|^2 > 4, with z starting at 0 and
\* updated once per index, and None exactly when there is no such index; a
\* returned index is in [0, limit).
C2_FirstExceedingIndex ==
    EtReturned =>
        \E orb \in {Orbit(et.c, et.limit)} :
            /\ et.ret.some <=> Exceeding(orb) # {}
            /\ et.ret.some =>
                   /\ et.ret.val \in Exceeding(orb)
                   /\ \A j \in Exceeding(orb) : et.ret.val <= j
                   /\ 0 <= et.ret.val /\ et.ret.val < et.limit
            /\ ~et.ret.some => et.ret = None

C2_Witness ==
    /\ EtReturned /\ et.limit = RenderLimit
    /\ et.c = Complex(Lit(33, -7), Lit(0, 0))
    /\ et.ret = Some(33)

IsOrigin(c) == IsZero(c.re) /\ IsZero(c.im)

\* C5: for every positive limit, escape_time(0+0i, limit) returns None.
C5_OriginNeverEscapes ==
    (EtReturned /\ IsOrigin(et.c) /\ et.limit >= 1) => et.ret = None

C5_Witness ==
    EtReturned /\ IsOrigin(et.c) /\ et.limit = RenderLimit /\ et.ret = None

\* re^2 + im^2 > 4 in exact arithmetic, for finite re and im of magnitudes
\* in [2^-26, 2)
SquaresAboveFour(re, im) ==
    LET e0 == IF re.exp < im.exp THEN 2 * re.exp ELSE 2 * im.exp
    IN  NCmp(NAdd(NShl(NMul(re.man, re.man), 2 * re.exp - e0),
                  NShl(NMul(im.man, im.man), 2 * im.exp - e0)),
             Pow2(2 - e0)) > 0

\* |c| > 2 in exact arithmetic.  Below 2 the largest f64 is 2 - 2^-52, so
\* a part of magnitude below 2^-26 beside a part below 2 leaves |c| < 2.
ModulusAboveTwo(c) ==
    IF IsNaN(c.re) \/ IsNaN(c.im) THEN FALSE
    ELSE IF IsInf(c.re) \/ IsInf(c.im) THEN TRUE
    ELSE IF MagCmp(c.re, Lit(2, 0)) > 0 \/ MagCmp(c.im, Lit(2, 0)) > 0 THEN TRUE
    ELSE IF MagCmp(c.re, Lit(2, 0)) = 0 THEN ~IsZero(c.im)
    ELSE IF MagCmp(c.im, Lit(2, 0)) = 0 THEN ~IsZero(c.re)
    ELSE IF MagCmp(c.re, Lit(1, -26)) < 0 \/ MagCmp(c.im, Lit(1, -26)) < 0
    THEN FALSE
    ELSE SquaresAboveFour(c.re, c.im)

\* C6 as stated: for every c with |c| > 2 and every limit >= 1,
\* escape_time(c, limit) returns Some(0).
C6_Original ==
    (EtReturned /\ et.limit >= 1 /\ ModulusAboveTwo(et.c)) => et.ret = Some(0)

\* C6, amended: for every c whose squared norm as the program computes it,
\* the f64 c.re*c.re + c.im*c.im, exceeds 4.0, and every limit >= 1,
\* escape_time(c, limit) returns Some(0); c = 5+0i is such a point.
C6_ComputedNormAboveFour ==
    (EtReturned /\ et.limit >= 1 /\ FGt(norm_sqr(et.c), Lit(4, 0)))
        => et.ret = Some(0)

C6_Witness ==
    /\ EtReturned /\ et.limit >= 1
    /\ et.c = Complex(Lit(5, 0), Lit(0, 0))
    /\ et.ret = Some(0)

\* C7: if escape_time(c, L1) returns Some(i), then escape_time(c, L2)
\* returns the same Some(i) for every limit L2 > L1.
C7_LargerLimitSameIndex ==
    (EtReturned /\ et.ret.some) =>
        \A l2 \in Limits : l2 > et.limit => escape_time(et.c, l2) = et.ret

C7_Witness ==
    /\ EtReturned /\ et.limit = 3
    /\ et.c = Complex(Lit(1, 0), Lit(0, 0))
    /\ et.ret = Some(2)

\* C8: the escape test is strict: a pass after which |z|^2 is exactly 4 does
\* not return and the loop goes on to the next index; so c = -2+0i, whose
\* orbit is -2, 2, 2, ..., yields None for every limit.
C8_StrictComparison ==
    EtReturned =>
        /\ \E orb \in {Orbit(et.c, et.limit)} :
               \A i \in OnCircle(orb) :
                   /\ et.ret # Some(i)
                   /\ i + 1 < et.limit => et.passes >= i + 2
        /\ et.c = Complex(Lit(-2, 0), Lit(0, 0)) => et.ret = None

C8_Witness ==
    /\ EtReturned /\ et.limit = RenderLimit
    /\ et.c = Complex(Lit(-2, 0), Lit(0, 0))
    /\ et.ret = None /\ et.passes = RenderLimit

----------------------------------------------------------------------------
(* The claims about pixel_to_point, under SpecPoint.                       *)

PpReturned == pp.pc = "ret"

\* width > 0 and height > 0
PositiveBounds == pp.bounds[1] # <<>> /\ pp.bounds[2] # <<>>

\* upper_left.re + column * (lower_right.re - upper_left.re) / width in f64,
\* the operations taken from left to right
FormulaRe ==
    FAdd(pp.upper_left.re,
         FDiv(FMul(FromUsize(pp.pixel[1]),
                   FSub(pp.lower_right.re, pp.upper_left.re)),
              FromUsize(pp.bounds[1])))

\* upper_left.im - row * (upper_left.im - lower_right.im) / height in f64
FormulaIm ==
    FSub(pp.upper_left.im,
         FDiv(FMul(FromUsize(pp.pixel[2]),
                   FSub(pp.upper_left.im, pp.lower_right.im)),
              FromUsize(pp.bounds[2])))

\* the call of the repository's test: bounds (100, 100), pixel (25, 75),
\* corners (-1, 1) and (1, -1)
IsTestCall ==
    /\ pp.bounds = <<NFromInt(100), NFromInt(100)>>
    /\ pp.pixel = <<NFromInt(25), NFromInt(75)>>
    /\ <<pp.upper_left, pp.lower_right>> = ViewTest

MapsToUpperLeft ==
    FEq(pp.ret.re, pp.upper_left.re) /\ FEq(pp.ret.im, pp.upper_left.im)

\* the spans of the plane, as f64, are numbers
FiniteSpans ==
    /\ IsFinite(FSub(pp.lower_right.re, pp.upper_left.re))
    /\ IsFinite(FSub(pp.upper_left.im, pp.lower_right.im))

----------------------------------------------------------------------------
(* The claims about render, under SpecRender.                              *)

\* the buffer has bounds.0 * bounds.1 elements, the product taken exactly
LengthMatches ==
    NCmp(NFromInt(Len(rd.given)), NMul(rd.bounds[1], rd.bounds[2])) = 0

\* the rows and the columns of a buffer that matches its bounds
Rows == {row \in 0 .. Len(rd.given) : NCmp(NFromInt(row), rd.bounds[2]) < 0}

Columns ==
    {column \in 0 .. Len(rd.given) : NCmp(NFromInt(column), rd.bounds[1]) < 0}

\* the byte of the claims for a result of escape_time
ByteOf(ret) == IF ret.some THEN 255 - ret.val ELSE 0

\* C1: for every bounds and every buffer of length width * height, after
\* render returns the byte at index row * width + column is, for every row
\* in [0, height) and column in [0, width), 0 if escape_time(pixel_to_point(
\* bounds, (column, row), upper_left, lower_right), 255) is None and
\* 255 - count if it is Some(count).
C1_RenderedBytes ==
    (rd.pc = "done" /\ LengthMatches) =>
        \A column \in Columns : \A row \in Rows :
            rd.pixels[row * NToInt(rd.bounds[1]) + column + 1] =
                ByteOf(escape_time(
                           pixel_to_point(rd.bounds,
                                          <<NFromInt(column), NFromInt(row)>>,
                                          rd.upper_left, rd.lower_right),
                           255))

C1_Witness ==
    /\ rd.pc = "done" /\ LengthMatches
    /\ rd.bounds = <<NFromInt(2), NFromInt(2)>>
    /\ <<rd.upper_left, rd.lower_right>> = ViewSeahorse
    /\ rd.given = <<170, 170, 170, 170>>
    /\ rd.pixels = <<205, 0, 155, 0>>

\* C3: a call of render with a buffer whose length differs from width *
\* height fails before any pixel is computed or written (the buffer is as
\* it was passed in and no pixel is evaluated), and render fails in no other
\* case.  A panic on the product itself counts here as that failure.
C3_MismatchOnlyFailure ==
    /\ (~LengthMatches /\ rd.pc # "entry") =>
           /\ rd.pc = "panic" /\ rd.panic \in {"assert", "overflow"}
           /\ rd.pixels = rd.given
           /\ rd.evals = <<>>
    /\ rd.pc = "panic" =>
           ~LengthMatches /\ rd.panic \in {"assert", "overflow"}

\* the pixels evaluated so far are those of the indices 0, 1, 2, ... in this
\* order, each written, each after at most 255 passes of the loop of
\* escape_time and after all 255 where the point did not escape
EvaluatedInOrder ==
    \A j \in 1 .. Len(rd.evals) :
        /\ rd.evals[j].index = NFromInt(j - 1)
        /\ rd.evals[j].written
        /\ rd.evals[j].passes <= 255
        /\ rd.evals[j].ret.some => rd.evals[j].passes = rd.evals[j].ret.val + 1
        /\ ~rd.evals[j].ret.some => rd.evals[j].passes = 255

\* a step writes no element of the buffer but the one after those written
WritesNextIndex ==
    \A i \in DOMAIN rd.pixels :
        rd'.pixels[i] # rd.pixels[i] =>
            i = Len(rd.evals) + 1 /\ Len(rd'.evals) = i

\* C9: for every bounds and buffer with the length precondition, render
\* terminates, and during the run it writes every index in 0 .. width *
\* height - 1 once, in increasing order (row-major), skipping no pixel,
\* with at most 255 passes of the orbit loop for a pixel.
C9_TerminatesInOrder ==
    /\ [](LengthMatches =>
              /\ EvaluatedInOrder
              /\ Len(rd.evals) <= Len(rd.given)
              /\ rd.pc = "done" => Len(rd.evals) = Len(rd.given))
    /\ [][LengthMatches => WritesNextIndex]_vars
    /\ (rd.pc = "entry" /\ LengthMatches) ~> rd.pc = "done"

C9_Witness ==
    /\ rd.pc = "done" /\ LengthMatches
    /\ rd.bounds = <<NFromInt(2), NFromInt(2)>>
    /\ Len(rd.evals) = 4
    /\ \A j \in 1 .. 4 : rd.evals[j].index = NFromInt(j - 1)
    /\ \E j \in 1 .. 4 : rd.evals[j].passes = 255

\* C10: in render the count escape_time(point, 255) returns is in [0, 254]
\* (so `count as u8` keeps it and 255 - count does not wrap), a pixel that
\* escaped is written a byte in [1, 255], and a written byte is 0 exactly
\* when its point did not escape.
C10_CountFitsByte ==
    \A j \in 1 .. Len(rd.evals) :
        /\ rd.evals[j].ret.some =>
               /\ rd.evals[j].ret.val \in 0 .. 254
               /\ rd.evals[j].ret.val % 256 = rd.evals[j].ret.val
        /\ rd.evals[j].written =>
               /\ rd.evals[j].ret.some =>
                      /\ rd.pixels[NToInt(rd.evals[j].index) + 1] \in 1 .. 255
                      /\ rd.pixels[NToInt(rd.evals[j].index) + 1] =
                             255 - rd.evals[j].ret.val
               /\ rd.pixels[NToInt(rd.evals[j].index) + 1] = 0
                      <=> ~rd.evals[j].ret.some

C10_Witness ==
    /\ rd.pc = "done"
    /\ <<rd.upper_left, rd.lower_right>> = ViewClassic
    /\ \E j \in 1 .. Len(rd.evals) :
           /\ rd.evals[j].written /\ rd.evals[j].ret = Some(0)
           /\ rd.pixels[j] = 255
    /\ \E j \in 1 .. Len(rd.evals) :
           /\ rd.evals[j].written /\ rd.evals[j].ret = None
           /\ rd.pixels[j] = 0

====
